---- MODULE Spec2Model ----
(***************************************************************************)
(* Model of neurolight's SwcSource (skeleton labeling, region query with   *)
(* boundary resampling) and RasterizeSkeleton (N-d Bresenham rasterizer).  *)
(*                                                                         *)
(* A point table row is [location, point_id, parent_id, label_id], the     *)
(* columns of SwcSource.data (x, y, z, point_id, parent_id, label_id).     *)
(* Python dicts are functions whose DOMAIN is the key set; Python lists    *)
(* are sequences.                                                          *)
(***************************************************************************)
EXTENDS Integers, Sequences, FiniteSets, TLC

VARIABLES
    data,               \* SwcSource.data: the point table, in file order
    child_to_parent,    \* SwcSource.child_to_parent
    parent_to_children, \* SwcSource.parent_to_children
    sources,            \* SwcSource.sources
    point_to_label,     \* SwcSource.point_to_label
    pc,                 \* position inside _read_points / _label_skeletons
    err,                \* exception that ended construction, or "none"
    i,                  \* loop index of the running for-loop
    p,                  \* local p of the running _label_skeleton call
    stack,              \* pending children of the enclosing _label_skeleton calls
    label_id,           \* local label_id of _label_skeletons
    roi,                \* request[points_key].roi of the last provide call
    points_data,        \* points returned by the last provide call
    relatives_resampled,\* the synthetic points of the last provide call
    qerr,               \* exception raised by the last provide call, or "none"
    call,               \* arguments of the function call under evaluation
    ret,                \* [state, value]: "pending", "returned" with the value,
                        \* or the name of the exception raised
    batch,              \* RasterizeSkeleton.process input: the points graph, the
                        \* roi of its spec and array_spec.voxel_size
    array_data,         \* local array_data of process, voxel -> value
    ccs,                \* the components that line 80 enumerates, in order
    cc_done,            \* components the loop of process has finished
    rpc,                \* position inside process
    array               \* batch.arrays[self.array], the cropped output

storeVars == <<data, child_to_parent, parent_to_children, sources,
               point_to_label, pc, err, i, p, stack, label_id>>

queryVars == <<roi, points_data, relatives_resampled, qerr>>

callVars == <<call, ret>>

rasterVars == <<batch, array_data, ccs, cc_done, rpc, array>>

vars == <<storeVars, queryVars, callVars, rasterVars>>

----------------------------------------------------------------------------
(* Bounds of the model *)

MaxLen == 3     \* rows of a point table
NumIds == 3     \* point ids are 1..NumIds; NumIds+1 is an id no row carries

----------------------------------------------------------------------------
(* Helpers for Python containers *)

EmptyMap == <<>>

Put(m, k, v) == [x \in (DOMAIN m) \cup {k} |-> IF x = k THEN v ELSE m[x]]

Range(s) == {s[k] : k \in DOMAIN s}

\* S with step applied n times and the results joined
RECURSIVE Closure(_, _, _)
Closure(step(_), S, n) ==
    IF n = 0 THEN S ELSE Closure(step, S \cup step(S), n - 1)

Origin == <<0, 0, 0>>

Row(loc, id, par) ==
    [location |-> loc, point_id |-> id, parent_id |-> par, label_id |-> 0]

----------------------------------------------------------------------------
(* SwcSource._label_skeletons, one loop iteration at a time *)

Cur ==
    [data |-> data, child_to_parent |-> child_to_parent,
     parent_to_children |-> parent_to_children, sources |-> sources,
     point_to_label |-> point_to_label, pc |-> pc, err |-> err, i |-> i,
     p |-> p, stack |-> stack, label_id |-> label_id]

Apply(s) ==
    /\ data' = s.data
    /\ child_to_parent' = s.child_to_parent
    /\ parent_to_children' = s.parent_to_children
    /\ sources' = s.sources
    /\ point_to_label' = s.point_to_label
    /\ pc' = s.pc
    /\ err' = s.err
    /\ i' = s.i
    /\ p' = s.p
    /\ stack' = s.stack
    /\ label_id' = s.label_id

\* lines 224-227: the indices are reset before the scan
BeginLabelSkeletons(s) ==
    [s EXCEPT !.child_to_parent = EmptyMap, !.parent_to_children = EmptyMap,
              !.sources = <<>>, !.point_to_label = EmptyMap,
              !.pc = "scan", !.i = 1]

\* ScanStep with the label counter started at 0 instead of 1 (line 248)
ScanStep_LabelFromZero(s) ==
    IF s.i > Len(s.data)
    THEN [s EXCEPT !.pc = "label", !.i = 1, !.label_id = 0]
    ELSE LET point_id == s.data[s.i].point_id
             parent_id == s.data[s.i].parent_id
         IN IF point_id = parent_id
            THEN [s EXCEPT !.sources = Append(@, point_id), !.i = @ + 1]
            ELSE [s EXCEPT
                    !.child_to_parent = Put(@, point_id, parent_id),
                    !.parent_to_children =
                        IF parent_id \in DOMAIN @
                        THEN Put(@, parent_id, Append(@[parent_id], point_id))
                        ELSE Put(@, parent_id, <<point_id>>),
                    !.i = @ + 1]

\* lines 232-244: classify row i as a root or a child
ScanStep(s) ==
    IF s.i > Len(s.data)
    THEN [s EXCEPT !.pc = "label", !.i = 1, !.label_id = 1]
    ELSE LET point_id == s.data[s.i].point_id
             parent_id == s.data[s.i].parent_id
         IN IF point_id = parent_id
            THEN [s EXCEPT !.sources = Append(@, point_id), !.i = @ + 1]
            ELSE [s EXCEPT
                    !.child_to_parent = Put(@, point_id, parent_id),
                    !.parent_to_children =
                        IF parent_id \in DOMAIN @
                        THEN Put(@, parent_id, Append(@[parent_id], point_id))
                        ELSE Put(@, parent_id, <<point_id>>),
                    !.i = @ + 1]

\* lines 249-251: call _label_skeleton on the i-th source
SourceStep(s) ==
    IF s.i > Len(s.sources)
    THEN [s EXCEPT !.pc = "write", !.i = 1]
    ELSE [s EXCEPT !.pc = "walk", !.p = s.sources[s.i], !.stack = <<>>]

\* a _label_skeleton call returns: the caller's for-loop (line 218) takes its
\* next child, or breaks (line 220) and returns in turn
RECURSIVE Unwind(_)
Unwind(s) ==
    IF s.stack = <<>>
    THEN [s EXCEPT !.pc = "label", !.i = @ + 1, !.label_id = @ + 1, !.p = 0]
    ELSE LET pending == s.stack[Len(s.stack)]
             rest == SubSeq(s.stack, 1, Len(s.stack) - 1)
         IN IF pending = <<>>
            THEN Unwind([s EXCEPT !.stack = rest])
            ELSE [s EXCEPT !.p = Head(pending),
                           !.stack = Append(rest, Tail(pending))]

\* WalkStep without the test of lines 205-206: a point that already has a
\* label is labeled again and the walk goes on
WalkStep_NoLoopCheck(s) ==
    LET t == [s EXCEPT !.point_to_label = Put(@, s.p, s.label_id)]
    IN IF s.p \notin DOMAIN s.parent_to_children
       THEN Unwind(t)
       ELSE LET children == s.parent_to_children[s.p]
            IN IF Len(children) = 1
               THEN [t EXCEPT !.p = children[1]]
               ELSE [t EXCEPT !.p = Head(children),
                              !.stack = Append(@, Tail(children))]

\* WalkStep that follows only the first child of a branching point (the
\* for-loop of line 218 cut short)
WalkStep_FirstChildOnly(s) ==
    IF s.p \in DOMAIN s.point_to_label
    THEN [s EXCEPT !.pc = "failed", !.err = "Loop detected in skeleton"]
    ELSE LET t == [s EXCEPT !.point_to_label = Put(@, s.p, s.label_id)]
         IN IF s.p \notin DOMAIN s.parent_to_children
            THEN Unwind(t)
            ELSE [t EXCEPT !.p = Head(s.parent_to_children[s.p])]

\* lines 203-220: one iteration of the while loop of _label_skeleton
WalkStep(s) ==
    IF s.p \in DOMAIN s.point_to_label
    THEN [s EXCEPT !.pc = "failed", !.err = "Loop detected in skeleton"]
    ELSE LET t == [s EXCEPT !.point_to_label = Put(@, s.p, s.label_id)]
         IN IF s.p \notin DOMAIN s.parent_to_children
            THEN Unwind(t)
            ELSE LET children == s.parent_to_children[s.p]
                 IN IF Len(children) = 1
                    THEN [t EXCEPT !.p = children[1]]
                    ELSE [t EXCEPT !.p = Head(children),
                                   !.stack = Append(@, Tail(children))]

\* lines 253-255: copy the label of row i into the table
WriteStep(s) ==
    IF s.i > Len(s.data)
    THEN [s EXCEPT !.pc = "ready"]
    ELSE LET point_id == s.data[s.i].point_id
         IN IF point_id \in DOMAIN s.point_to_label
            THEN [s EXCEPT !.data[s.i].label_id = s.point_to_label[point_id],
                           !.i = @ + 1]
            ELSE [s EXCEPT !.pc = "failed", !.err = "KeyError"]

LabelStep(s) ==
    CASE s.pc = "new" -> BeginLabelSkeletons(s)
      [] s.pc = "scan" -> ScanStep(s)
      [] s.pc = "label" -> SourceStep(s)
      [] s.pc = "walk" -> WalkStep(s)
      [] s.pc = "write" -> WriteStep(s)
      [] OTHER -> s

\* the whole of _label_skeletons, as setup() runs it
RECURSIVE _label_skeletons(_)
_label_skeletons(s) ==
    IF s.pc \in {"ready", "failed"} THEN s ELSE _label_skeletons(LabelStep(s))

----------------------------------------------------------------------------
(* Point tables read from the file *)

Ids == 1..NumIds

ParentIds == 1..(NumIds + 1)

StructRows == {Row(Origin, id, par) : id \in Ids, par \in ParentIds}

TablesOver(rows, n) == UNION {[1..k -> rows] : k \in 1..n}

InitStore(table) ==
    /\ data = table
    /\ child_to_parent = EmptyMap
    /\ parent_to_children = EmptyMap
    /\ sources = <<>>
    /\ point_to_label = EmptyMap
    /\ pc = "new"
    /\ err = "none"
    /\ i = 0
    /\ p = 0
    /\ stack = <<>>
    /\ label_id = 0

NoRoi == [begin |-> Origin, shape |-> Origin]

InitQuery ==
    /\ roi = NoRoi
    /\ points_data = EmptyMap
    /\ relatives_resampled = EmptyMap
    /\ qerr = "none"

----------------------------------------------------------------------------
(* Specification of construction: _read_points -> _label_skeletons *)

NoCall == [fn |-> "none"]

Pending == [state |-> "pending", value |-> <<>>]

Returned(v) == [state |-> "returned", value |-> v]

Raised(e) == [state |-> e, value |-> <<>>]

InitCall == call = NoCall /\ ret = Pending

NoBatch == [nodes |-> <<>>, edges |-> <<>>, roi |-> NoRoi, voxel_size |-> <<1, 1, 1>>]

InitRaster ==
    /\ batch = NoBatch
    /\ array_data = EmptyMap
    /\ ccs = <<>>
    /\ cc_done = 0
    /\ rpc = "idle"
    /\ array = EmptyMap

InitLabel ==
    /\ \E table \in TablesOver(StructRows, MaxLen) : InitStore(table)
    /\ InitQuery
    /\ InitCall
    /\ InitRaster

Begin == pc = "new" /\ Apply(BeginLabelSkeletons(Cur)) /\ UNCHANGED <<queryVars, callVars, rasterVars>>

ScanRecord == pc = "scan" /\ Apply(ScanStep(Cur)) /\ UNCHANGED <<queryVars, callVars, rasterVars>>

NextSource == pc = "label" /\ Apply(SourceStep(Cur)) /\ UNCHANGED <<queryVars, callVars, rasterVars>>

LabelPoint == pc = "walk" /\ Apply(WalkStep(Cur)) /\ UNCHANGED <<queryVars, callVars, rasterVars>>

WriteLabel == pc = "write" /\ Apply(WriteStep(Cur)) /\ UNCHANGED <<queryVars, callVars, rasterVars>>

NextLabel == Begin \/ ScanRecord \/ NextSource \/ LabelPoint \/ WriteLabel

SpecLabel == InitLabel /\ [][NextLabel]_vars

\* construction as a running program: the interpreter always takes the next
\* step of _label_skeletons
SpecTerminate == InitLabel /\ [][NextLabel]_vars /\ WF_vars(NextLabel)

----------------------------------------------------------------------------
(* SwcSource.provide: region query with boundary resampling *)

ndims == 3

Axes == 1..ndims

SwcPoint(location, point_id, parent_id, lab) ==
    [location |-> location, point_id |-> point_id, parent_id |-> parent_id,
     label_id |-> lab]

\* lines 109-110: closed lower bound, upper bound end - 1 voxel
MinBB(r) == r.begin

MaxBB(r) == [d \in Axes |-> r.begin[d] + r.shape[d] - 1]

\* lines 116-119
PointFilter(loc, min_bb, max_bb) ==
    \A d \in Axes : loc[d] >= min_bb[d] /\ loc[d] <= max_bb[d]

\* lines 166-177: dict comprehension over the filtered rows, a later row with
\* the same id replaces the earlier one
RECURSIVE _get_points(_)
_get_points(rows) ==
    IF rows = <<>> THEN EmptyMap
    ELSE LET front == SubSeq(rows, 1, Len(rows) - 1)
             r == rows[Len(rows)]
         IN Put(_get_points(front), r.point_id,
                SwcPoint(r.location, r.point_id, r.parent_id, r.label_id))

\* iteration order of the dict built by _get_points: keys by first insertion
RECURSIVE KeyOrder(_)
KeyOrder(rows) ==
    IF rows = <<>> THEN <<>>
    ELSE LET front == SubSeq(rows, 1, Len(rows) - 1)
             k == rows[Len(rows)].point_id
         IN IF k \in Range(KeyOrder(front)) THEN KeyOrder(front)
            ELSE Append(KeyOrder(front), k)

\* lines 179-187: first row with the id; data[filter][0] raises IndexError when
\* no row matches
HasPoint(t, id) == \E k \in DOMAIN t : t[k].point_id = id

_get_point(t, id) ==
    LET k == CHOOSE j \in DOMAIN t :
                /\ t[j].point_id = id
                /\ \A h \in DOMAIN t : t[h].point_id = id => j <= h
    IN SwcPoint(t[k].location, t[k].point_id, t[k].parent_id, t[k].label_id)

\* lines 191-193: the per-axis ratios (bound - p) / (relative - p) as fractions
\* <<numerator, denominator>> with a positive denominator.  A zero denominator
\* gives inf or nan in numpy, which no comparison of line 195 accepts.
Ratios(ploc, rloc, min_bb, max_bb) ==
    LET frac(bound, d) ==
            LET num == bound[d] - ploc[d]
                den == rloc[d] - ploc[d]
            IN IF den < 0 THEN <<0 - num, 0 - den>> ELSE <<num, den>>
    IN {frac(b, d) : b \in {min_bb, max_bb},
                     d \in {a \in Axes : rloc[a] # ploc[a]}}

\* InUnit that accepts strictly positive ratios only (s_bb > 0 in place of
\* s_bb >= 0 in lines 195 and 198)
InUnit_StrictlyPositive(f) == f[1] > 0 /\ f[1] <= f[2]

\* line 195 and 198: s_bb >= 0 and s_bb <= 1
InUnit(f) == f[1] >= 0 /\ f[1] <= f[2]

FracLeq(f, g) == f[1] * g[2] <= g[1] * f[2]

CanResample(ploc, rloc, min_bb, max_bb) ==
    \E f \in Ratios(ploc, rloc, min_bb, max_bb) : InUnit(f)

\* line 198-199: s is the least accepted ratio, the result floor(p + s * dist)
_resample_relative(ploc, rloc, min_bb, max_bb) ==
    LET ok == {f \in Ratios(ploc, rloc, min_bb, max_bb) : InUnit(f)}
        s == CHOOSE f \in ok : \A g \in ok : FracLeq(f, g)
    IN [d \in Axes |-> ploc[d] + ((s[1] * (rloc[d] - ploc[d])) \div s[2])]

\* RelativesOf that severs the synthetic child as it does the synthetic parent
\* (parent_id -1 in line 152)
RelativesOf_ChildSevered(s, point_id) ==
    LET par == IF point_id \in Range(s.sources) THEN <<>>
               ELSE <<<<s.child_to_parent[point_id], -1>>>>
        kids == IF point_id \in DOMAIN s.parent_to_children
                THEN [k \in DOMAIN s.parent_to_children[point_id] |->
                        <<s.parent_to_children[point_id][k], -1>>]
                ELSE <<>>
    IN par \o kids

\* lines 133-152 for one kept point: its parent (unless a source) and then its
\* children, as <<relative id, parent_id of the synthetic point>>
RelativesOf(s, point_id) ==
    LET par == IF point_id \in Range(s.sources) THEN <<>>
               ELSE <<<<s.child_to_parent[point_id], -1>>>>
        kids == IF point_id \in DOMAIN s.parent_to_children
                THEN [k \in DOMAIN s.parent_to_children[point_id] |->
                        <<s.parent_to_children[point_id][k], point_id>>]
                ELSE <<>>
    IN par \o kids

\* the body of the loop of line 130 for the relatives rels of kept point pt,
\* starting from the accumulated acc = [rel, err]
RECURSIVE ResampleAll(_, _, _, _, _, _)
ResampleAll(s, kept, pt, rels, r, acc) ==
    IF rels = <<>> \/ acc.err # "none" THEN acc
    ELSE LET rid == Head(rels)[1]
             newpar == Head(rels)[2]
         IN IF rid \in DOMAIN kept
            THEN ResampleAll(s, kept, pt, Tail(rels), r, acc)
            ELSE IF ~HasPoint(s.data, rid)
            THEN [acc EXCEPT !.err = "IndexError"]
            ELSE LET relative == _get_point(s.data, rid)
                 IN IF ~CanResample(pt.location, relative.location,
                                    MinBB(r), MaxBB(r))
                    THEN [acc EXCEPT !.err = "AssertionError"]
                    ELSE ResampleAll(s, kept, pt, Tail(rels), r,
                           [acc EXCEPT !.rel = Put(@, rid,
                              SwcPoint(_resample_relative(pt.location,
                                           relative.location, MinBB(r), MaxBB(r)),
                                       rid, newpar, pt.label_id))])

RECURSIVE ForEachKept(_, _, _, _, _)
ForEachKept(s, kept, order, r, acc) ==
    IF order = <<>> \/ acc.err # "none" THEN acc
    ELSE ForEachKept(s, kept, Tail(order), r,
            ResampleAll(s, kept, kept[Head(order)],
                        RelativesOf(s, Head(order)), r, acc))

\* lines 108-156: the result of provide for region r on store s, as
\* [points, rel, err]
provide(s, r) ==
    LET inside(row) == PointFilter(row.location, MinBB(r), MaxBB(r))
        filtered == SelectSeq(s.data, inside)
        kept == _get_points(filtered)
        acc == IF Cardinality(DOMAIN kept) < Len(s.data)
               THEN ForEachKept(s, kept, KeyOrder(filtered), r,
                                [rel |-> EmptyMap, err |-> "none"])
               ELSE [rel |-> EmptyMap, err |-> "none"]
        merged == [k \in (DOMAIN kept) \cup (DOMAIN acc.rel) |->
                     IF k \in DOMAIN acc.rel THEN acc.rel[k] ELSE kept[k]]
    IN IF acc.err # "none"
       THEN [points |-> EmptyMap, rel |-> EmptyMap, err |-> acc.err]
       ELSE [points |-> merged, rel |-> acc.rel, err |-> "none"]

----------------------------------------------------------------------------
(* Specification of queries against a constructed store *)

QueryLen == 3   \* rows of a point table in the query specification

\* locations of the points: the two ends of the segment (0,0,0)-(10,0,0)
Locs == {<<0, 0, 0>>, <<10, 0, 0>>}

Roi(begin, shape) == [begin |-> begin, shape |-> shape]

\* requested regions: the first holds (0,0,0) on its faces, the second holds
\* (0,0,0) in its interior, the third holds every point, the fourth only
\* (10,0,0), the fifth none
Regions ==
    {Roi(<<0, 0, 0>>, <<5, 1, 1>>), Roi(<<-1, -1, -1>>, <<8, 4, 3>>),
     Roi(<<-1, -1, -1>>, <<13, 4, 3>>), Roi(<<8, -1, -1>>, <<4, 4, 3>>),
     Roi(<<20, 20, 20>>, <<2, 2, 2>>)}

LocRows == {Row(loc, id, par) : loc \in Locs, id \in Ids, par \in ParentIds}

InitQuerySpec ==
    /\ \E table \in TablesOver(LocRows, QueryLen) : InitStore(table)
    /\ InitQuery
    /\ InitCall
    /\ InitRaster

\* setup(): _read_points runs the whole of _label_skeletons
Setup == pc = "new" /\ Apply(_label_skeletons(Cur)) /\ UNCHANGED <<queryVars, callVars, rasterVars>>

\* Provide that resamples the missing relative in place: the location of the
\* synthetic point is written to the relative's row of the table (a view of
\* self.data in place of the copy made by self.data[point_filter])
Provide_ResamplesInPlace(r) ==
    /\ pc = "ready"
    /\ LET out == provide(Cur, r)
       IN /\ roi' = r
          /\ points_data' = out.points
          /\ relatives_resampled' = out.rel
          /\ qerr' = out.err
          /\ data' = [k \in DOMAIN data |->
                        IF data[k].point_id \in DOMAIN out.rel
                        THEN [data[k] EXCEPT
                                !.location = out.rel[data[k].point_id].location]
                        ELSE data[k]]
    /\ UNCHANGED <<child_to_parent, parent_to_children, sources, point_to_label,
                   pc, err, i, p, stack, label_id, callVars, rasterVars>>

\* Provide whose relatives_resampled outlives the call (line 123 skipped): the
\* synthetic points of earlier calls are merged into the result again
Provide_KeepsRelatives(r) ==
    /\ pc = "ready"
    /\ LET out == provide(Cur, r)
           stale == [k \in (DOMAIN relatives_resampled) \cup (DOMAIN out.rel) |->
                       IF k \in DOMAIN out.rel THEN out.rel[k]
                       ELSE relatives_resampled[k]]
       IN /\ roi' = r
          /\ qerr' = out.err
          /\ relatives_resampled' = IF out.err = "none" THEN stale
                                    ELSE relatives_resampled
          /\ points_data' =
                IF out.err # "none" THEN EmptyMap
                ELSE [k \in (DOMAIN out.points) \cup (DOMAIN stale) |->
                        IF k \in DOMAIN stale THEN stale[k] ELSE out.points[k]]
    /\ UNCHANGED <<storeVars, callVars, rasterVars>>

Provide(r) ==
    /\ pc = "ready"
    /\ LET out == provide(Cur, r)
       IN /\ roi' = r
          /\ points_data' = out.points
          /\ relatives_resampled' = out.rel
          /\ qerr' = out.err
    /\ UNCHANGED <<storeVars, callVars, rasterVars>>

NextQuery == Setup \/ \E r \in Regions : Provide(r)

SpecQuery == InitQuerySpec /\ [][NextQuery]_vars

----------------------------------------------------------------------------
(* Specification of _resample_relative as a function of its arguments *)

MaxCoord == 3   \* coordinates of the arguments are 0..MaxCoord

Cube == {<<x, y, z>> : x \in 0..MaxCoord, y \in 0..MaxCoord, z \in 0..MaxCoord}

\* <<min_bb, max_bb>> of the query box: a box with interior and a box that is
\* flat on one axis
Boxes == {<<(<<1, 1, 1>>), (<<2, 2, 2>>)>>, <<(<<0, 1, 1>>), (<<2, 1, 3>>)>>}

InitResample ==
    /\ InitStore(<<>>)
    /\ InitQuery
    /\ InitRaster
    /\ \E ploc \in Cube, rloc \in Cube, bb \in Boxes :
        call = [fn |-> "_resample_relative", p |-> ploc, relative |-> rloc,
                min_bb |-> bb[1], max_bb |-> bb[2]]
    /\ ret = Pending

\* lines 189-199: the assertion of line 195 raises when no ratio is accepted
Resample ==
    /\ call.fn = "_resample_relative"
    /\ ret = Pending
    /\ ret' = IF CanResample(call.p, call.relative, call.min_bb, call.max_bb)
              THEN Returned(_resample_relative(call.p, call.relative,
                                               call.min_bb, call.max_bb))
              ELSE Raised("AssertionError")
    /\ UNCHANGED <<storeVars, queryVars, call, rasterVars>>

NextResample == Resample

SpecResample == InitResample /\ [][NextResample]_vars

----------------------------------------------------------------------------
(* Specification of queries on a parent and its child anywhere in the cube *)

\* the regions whose min_bb and max_bb are those of Boxes
BoxRegions ==
    {Roi(bb[1], [d \in Axes |-> bb[2][d] - bb[1][d] + 1]) : bb \in Boxes}

\* a root and its child, in either order of the rows
InitBoundary ==
    /\ \E ploc \in Cube, rloc \in Cube :
        \E table \in {<<Row(ploc, 1, 1), Row(rloc, 2, 1)>>,
                      <<Row(rloc, 2, 1), Row(ploc, 1, 1)>>} : InitStore(table)
    /\ InitQuery
    /\ InitCall
    /\ InitRaster

NextBoundary == Setup \/ \E r \in BoxRegions : Provide(r)

SpecBoundary == InitBoundary /\ [][NextBoundary]_vars

----------------------------------------------------------------------------
(* RasterizeSkeleton._bresenhamline / _rasterize_line_segment *)

Abs(x) == IF x < 0 THEN 0 - x ELSE x

Max(S) == CHOOSE x \in S : \A y \in S : y <= x

\* np.rint of the fraction n / d, d > 0: nearest integer, halves to the even one
Rint(n, d) ==
    LET f == n \div d
        r == n % d
    IN IF 2 * r < d THEN f
       ELSE IF 2 * r > d THEN f + 1
       ELSE IF f % 2 = 0 THEN f ELSE f + 1

\* _bresenhamline with stepseq = arange(1, max_iter), one step short
_bresenhamline_StopsShort(start_voxel, end_voxel) ==
    LET slope == [d \in Axes |-> end_voxel[d] - start_voxel[d]]
        max_iter == Max({Abs(slope[d]) : d \in Axes})
    IN [k \in 1..(max_iter - 1) |->
          [d \in Axes |-> Rint(start_voxel[d] * max_iter + slope[d] * k, max_iter)]]

\* lines 107-129 with max_iter = -1: the steps 1..max_iter of
\* start + (slope / scale) * step, rounded; scale = max_iter = amax(abs(slope)).
\* The float products agree with the exact fractions for scale < 22.
_bresenhamline(start_voxel, end_voxel) ==
    LET slope == [d \in Axes |-> end_voxel[d] - start_voxel[d]]
        max_iter == Max({Abs(slope[d]) : d \in Axes})
    IN [k \in 1..max_iter |->
          [d \in Axes |-> Rint(start_voxel[d] * max_iter + slope[d] * k, max_iter)]]

\* numpy indexing of an axis of length n: negative indices count from the end
InRange(v, shape) == \A d \in Axes : v[d] >= 0 - shape[d] /\ v[d] < shape[d]

Wrap(v, shape) == [d \in Axes |-> IF v[d] < 0 THEN v[d] + shape[d] ELSE v[d]]

\* lines 131-148: the mask with the line and then the first end point set;
\* [mask, err], err = "IndexError" when an index is outside the mask
_rasterize_line_segment(point, parent, skeletonized, shape) ==
    LET line_segment_points == _bresenhamline(point, parent)
        touched == Range(line_segment_points) \cup {point}
    IN IF \A v \in touched : InRange(v, shape)
       THEN [mask |-> skeletonized \cup {Wrap(v, shape) : v \in touched},
             err |-> "none"]
       ELSE [mask |-> skeletonized, err |-> "IndexError"]

----------------------------------------------------------------------------
(* Specification of _rasterize_line_segment as a function of its arguments *)

MaxVox == 3     \* voxel coordinates of the end points are 0..MaxVox

VoxCube == {<<x, y, z>> : x \in 0..MaxVox, y \in 0..MaxVox, z \in 0..MaxVox}

VoxShape == <<MaxVox + 1, MaxVox + 1, MaxVox + 1>>

InitLine ==
    /\ InitStore(<<>>)
    /\ InitQuery
    /\ InitRaster
    /\ \E a \in VoxCube, b \in VoxCube :
        call = [fn |-> "_rasterize_line_segment", point |-> a, parent |-> b]
    /\ ret = Pending

\* _rasterize_line_segment(point, parent, skeletonized) on an all-False mask;
\* the value holds the returned mask and the local line_segment_points
RasterizeLine ==
    /\ call.fn = "_rasterize_line_segment"
    /\ ret = Pending
    /\ LET out == _rasterize_line_segment(call.point, call.parent, {}, VoxShape)
       IN ret' = IF out.err = "none"
                 THEN Returned([skeletonized |-> out.mask,
                                line_segment_points |->
                                    _bresenhamline(call.point, call.parent)])
                 ELSE Raised(out.err)
    /\ UNCHANGED <<storeVars, queryVars, call, rasterVars>>

NextLine == RasterizeLine

SpecLine == InitLine /\ [][NextLine]_vars

----------------------------------------------------------------------------
(* RasterizeSkeleton.process *)

\* gunpowder Coordinate division and Roi.snap_to_grid (mode grow), per axis
FloorDiv(a, b) == a \div b

CeilDiv(a, b) == 0 - ((0 - a) \div b)

\* ndarray.astype(int) of the fraction n / d, d > 0: truncation toward zero
Trunc(n, d) == IF n >= 0 THEN n \div d ELSE 0 - ((0 - n) \div d)

RoiEnd(r) == [d \in Axes |-> r.begin[d] + r.shape[d]]

\* lines 72-74: offset and shape of the working grid in voxels
GridOffset(b) == [d \in Axes |-> FloorDiv(b.roi.begin[d], b.voxel_size[d])]

GridShape(b) ==
    [d \in Axes |-> CeilDiv(RoiEnd(b.roi)[d], b.voxel_size[d]) - GridOffset(b)[d]]

Grid(shape) ==
    {<<x, y, z>> : x \in 0..(shape[1] - 1), y \in 0..(shape[2] - 1),
                   z \in 0..(shape[3] - 1)}

\* line 84: p1 = (location / voxel_size - offset).astype(int)
VoxelOfU(b, loc) ==
    [d \in Axes |-> Trunc(loc[d] - GridOffset(b)[d] * b.voxel_size[d],
                          b.voxel_size[d])]

\* lines 85-87: p2 = (location / voxel_size).astype(int) - offset
VoxelOfV(b, loc) ==
    [d \in Axes |-> Trunc(loc[d], b.voxel_size[d]) - GridOffset(b)[d]]

\* nodes joined to the nodes of S by an edge in either direction
Neighbours(b, S) ==
    {e[2] : e \in {f \in Range(b.edges) : f[1] \in S}}
    \cup {e[1] : e \in {f \in Range(b.edges) : f[2] \in S}}

ComponentOfNode(b, n) ==
    LET nb(S) == Neighbours(b, S) IN Closure(nb, {n}, Len(b.nodes))

\* line 80, nx.weakly_connected_components: the component of each node not
\* seen before, in the order of the nodes of the graph
RECURSIVE ComponentsFrom(_, _, _)
ComponentsFrom(b, n, seen) ==
    IF n > Len(b.nodes) THEN <<>>
    ELSE IF n \in seen THEN ComponentsFrom(b, n + 1, seen)
    ELSE <<ComponentOfNode(b, n)>>
            \o ComponentsFrom(b, n + 1, seen \cup ComponentOfNode(b, n))

Components(b) == ComponentsFrom(b, 1, {})

\* lines 82-88: the mask of one component, edge after edge; [mask, err]
RECURSIVE RasterizeEdges(_, _, _)
RasterizeEdges(b, edges, acc) ==
    IF edges = <<>> \/ acc.err # "none" THEN acc
    ELSE LET u == Head(edges)[1]
             v == Head(edges)[2]
             p1 == VoxelOfU(b, b.nodes[u].location)
             p2 == VoxelOfV(b, b.nodes[v].location)
         IN RasterizeEdges(b, Tail(edges),
                _rasterize_line_segment(p1, p2, acc.mask, GridShape(b)))

Binarized(b, cc) ==
    LET inCC(e) == e[1] \in cc /\ e[2] \in cc
    IN RasterizeEdges(b, SelectSeq(b.edges, inCC), [mask |-> {}, err |-> "none"])

\* line 102: the voxels of the working grid that lie in the requested roi
Crop(b, arr) ==
    LET inside(v) ==
            \A d \in Axes :
                /\ (GridOffset(b)[d] + v[d]) * b.voxel_size[d] >= b.roi.begin[d]
                /\ (GridOffset(b)[d] + v[d] + 1) * b.voxel_size[d] <= RoiEnd(b.roi)[d]
    IN [v \in {w \in DOMAIN arr : inside(w)} |-> arr[v]]

----------------------------------------------------------------------------
(* Specification of the rasterizer *)

MaxNodes == 4   \* nodes of the points graph

\* locations of the nodes: two unit-length segments ten voxels apart
NodeLocs == {<<-1, 0, 0>>, <<0, 0, 0>>, <<10, 0, 0>>, <<11, 1, 0>>}

\* roi of the points spec and voxel size of the array spec
RasterConfigs ==
    {[roi |-> Roi(<<-1, 0, 0>>, <<13, 2, 1>>), voxel_size |-> <<1, 1, 1>>],
     [roi |-> Roi(<<-2, 0, 0>>, <<14, 2, 1>>), voxel_size |-> <<2, 2, 1>>]}

\* the graph of a set of points: node k is the k-th point, parent[k] = 0 for a
\* point without an edge to a parent, edges run from a point to its parent
GraphOf(locs, parent) ==
    LET hasEdge(k) == parent[k] # 0
        kids == SelectSeq([k \in DOMAIN locs |-> k], hasEdge)
    IN [nodes |-> [k \in DOMAIN locs |-> [location |-> locs[k]]],
        edges |-> [j \in DOMAIN kids |-> <<kids[j], parent[kids[j]]>>]]

Forests(n) == {f \in [1..n -> 0..n] : \A k \in 1..n : f[k] < k}

InitRasterSpec ==
    /\ InitStore(<<>>)
    /\ InitQuery
    /\ InitCall
    /\ \E n \in 0..MaxNodes :
        \E parent \in Forests(n), locs \in [1..n -> NodeLocs], cfg \in RasterConfigs :
            batch = [nodes |-> GraphOf(locs, parent).nodes,
                     edges |-> GraphOf(locs, parent).edges,
                     roi |-> cfg.roi, voxel_size |-> cfg.voxel_size]
    /\ array_data = EmptyMap
    /\ ccs = <<>>
    /\ cc_done = 0
    /\ rpc = "idle"
    /\ array = EmptyMap

\* lines 64-78: the assertion on the points and the zeroed working grid
ProcessBegin ==
    /\ rpc = "idle"
    /\ batch # NoBatch
    /\ IF Len(batch.nodes) = 0
       THEN rpc' = "AssertionError" /\ UNCHANGED <<array_data, ccs>>
       ELSE /\ rpc' = "components"
            /\ array_data' = [v \in Grid(GridShape(batch)) |-> 0]
            /\ ccs' = Components(batch)
    /\ UNCHANGED <<storeVars, queryVars, callVars, batch, cc_done, array>>

\* lines 80-90: one iteration of the loop over the components
RasterizeComponent ==
    /\ rpc = "components"
    /\ cc_done < Len(ccs)
    /\ \E binarized \in {Binarized(batch, ccs[cc_done + 1])} :
          IF binarized.err # "none"
          THEN rpc' = binarized.err /\ UNCHANGED <<array_data, cc_done>>
          ELSE /\ array_data' = [v \in DOMAIN array_data |->
                                   IF v \in binarized.mask THEN cc_done + 1
                                   ELSE array_data[v]]
               /\ cc_done' = cc_done + 1
               /\ rpc' = rpc
    /\ UNCHANGED <<storeVars, queryVars, callVars, batch, ccs, array>>

\* lines 92-105: wrap, crop to the requested roi and store the array
ProcessEnd ==
    /\ rpc = "components"
    /\ cc_done = Len(ccs)
    /\ array' = Crop(batch, array_data)
    /\ rpc' = "done"
    /\ UNCHANGED <<storeVars, queryVars, callVars, batch, array_data, ccs, cc_done>>

NextRaster == ProcessBegin \/ RasterizeComponent \/ ProcessEnd

SpecRaster == InitRasterSpec /\ [][NextRaster]_vars

----------------------------------------------------------------------------
(* Specification of a constructed store that serves queries and rasterizer *)
(* calls in any order                                                      *)

ServeLen == 2   \* rows of a point table in the serving specification

\* the points graphs handed to process: a unit segment, and a single point
ServeBatches ==
    {[nodes |-> <<[location |-> <<10, 0, 0>>], [location |-> <<11, 1, 0>>]>>,
      edges |-> <<(<<2, 1>>)>>,
      roi |-> Roi(<<-1, 0, 0>>, <<13, 2, 1>>), voxel_size |-> <<1, 1, 1>>],
     [nodes |-> <<[location |-> <<-1, 0, 0>>]>>,
      edges |-> <<>>,
      roi |-> Roi(<<-2, 0, 0>>, <<14, 2, 1>>), voxel_size |-> <<2, 2, 1>>]}

\* the regions asked for: one with (0,0,0) on its faces, one with only
\* (10,0,0)
ServeRegions ==
    {Roi(<<0, 0, 0>>, <<5, 1, 1>>), Roi(<<8, -1, -1>>, <<4, 4, 3>>)}

InitServe ==
    /\ \E table \in TablesOver(LocRows, ServeLen) : InitStore(table)
    /\ InitQuery
    /\ InitCall
    /\ InitRaster

\* the result of provide as its caller receives it (line 161, return batch)
Result == IF qerr = "none" THEN Returned(points_data) ELSE Raised(qerr)

\* provide has returned: its caller holds on to the batch, the locals of the
\* call are gone
Keep ==
    /\ pc = "ready"
    /\ roi \in Regions
    /\ call' = [fn |-> "provide", roi |-> roi]
    /\ ret' = Result
    /\ roi' = NoRoi
    /\ points_data' = EmptyMap
    /\ relatives_resampled' = EmptyMap
    /\ qerr' = "none"
    /\ UNCHANGED <<storeVars, rasterVars>>

\* a call of process on the batch b, once the previous call has returned
Request(b) ==
    /\ pc = "ready"
    /\ rpc \in {"idle", "done"}
    /\ batch' = b
    /\ array_data' = EmptyMap
    /\ ccs' = <<>>
    /\ cc_done' = 0
    /\ rpc' = "idle"
    /\ array' = EmptyMap
    /\ UNCHANGED <<storeVars, queryVars, callVars>>

NextServe ==
    \/ Setup
    \/ \E r \in ServeRegions : Provide(r)
    \/ Keep
    \/ \E b \in ServeBatches : Request(b)
    \/ ProcessBegin
    \/ RasterizeComponent
    \/ ProcessEnd

SpecServe == InitServe /\ [][NextServe]_vars

----------------------------------------------------------------------------
(* Vocabulary of the properties of _resample_relative *)

\* the call resamples a relative outside the box from a kept point inside it
KeptAndMissing ==
    /\ call.fn = "_resample_relative"
    /\ PointFilter(call.p, call.min_bb, call.max_bb)
    /\ ~PointFilter(call.relative, call.min_bb, call.max_bb)

\* the accepted ratios that are strictly positive
PositiveRatios ==
    {f \in Ratios(call.p, call.relative, call.min_bb, call.max_bb) :
        InUnit(f) /\ f[1] > 0}

\* floor(p + s * (relative - p)) for the fraction s
PointAt(s) ==
    [d \in Axes |-> call.p[d] + ((s[1] * (call.relative[d] - call.p[d])) \div s[2])]

(* C6: for a kept point p and a missing relative r the location computed   *)
(* by _resample_relative is floor(p + s * (r - p)) with s the minimum      *)
(* strictly positive ratio among the per-axis ratios in [0, 1]; a ratio    *)
(* equal to 0 is never selected.                                           *)
C6_MinimumPositiveRatio ==
    (KeptAndMissing /\ ret # Pending /\ PositiveRatios # {}) =>
        \E s \in PositiveRatios :
            /\ \A g \in PositiveRatios : FracLeq(s, g)
            /\ ret = Returned(PointAt(s))

----------------------------------------------------------------------------
(* Vocabulary of the properties of construction *)

IdsOf(t) == {t[k].point_id : k \in DOMAIN t}

IsRootRow(r) == r.point_id = r.parent_id

UniqueIds(t) ==
    \A a, b \in DOMAIN t : t[a].point_id = t[b].point_id => a = b

DanglingParent(t) ==
    \E k \in DOMAIN t : ~IsRootRow(t[k]) /\ t[k].parent_id \notin IdsOf(t)

\* child -> parent edges of the table
ParentEdges(t) ==
    {<<t[k].point_id, t[k].parent_id>> : k \in {j \in DOMAIN t : ~IsRootRow(t[j])}}

\* ids met by following parent pointers upward from id x (x excluded unless met again)
AncestorsOf(t, x) ==
    LET up(S) == {e[2] : e \in {f \in ParentEdges(t) : f[1] \in S}}
    IN Closure(up, up({x}), Len(t))

\* ids joined to x by parent/child edges taken in either direction
ComponentOf(t, x) ==
    LET nb(S) == {e[2] : e \in {f \in ParentEdges(t) : f[1] \in S}}
                 \cup {e[1] : e \in {f \in ParentEdges(t) : f[2] \in S}}
    IN Closure(nb, {x}, Len(t))

RootIds(t) == {t[k].point_id : k \in {j \in DOMAIN t : IsRootRow(t[j])}}

ReachableFromRoot(t) ==
    \A k \in DOMAIN t :
        IsRootRow(t[k]) \/ AncestorsOf(t, t[k].point_id) \cap RootIds(t) # {}

\* a valid record set: unique ids, no dangling parent, every point under a root
Valid(t) == UniqueIds(t) /\ ~DanglingParent(t) /\ ReachableFromRoot(t)

\* a loop of parent pointers that passes through no root
NonRootCycle(t) ==
    \E x \in IdsOf(t) \ RootIds(t) :
        /\ x \in AncestorsOf(t, x)
        /\ AncestorsOf(t, x) \cap RootIds(t) = {}

\* the roots in table order
RootSeq(t) == SelectSeq(t, IsRootRow)

\* 1-based position of the root of x's skeleton among the roots, in table order
RootIndexOf(t, x) ==
    CHOOSE n \in 1..Len(RootSeq(t)) :
        RootSeq(t)[n].point_id \in ({x} \cup AncestorsOf(t, x))

----------------------------------------------------------------------------
(* C1: for every valid record set the labeling pass completes, gives every *)
(* point_id exactly one positive label (the one written to its table row), *)
(* and two points carry the same label if and only if they are weakly      *)
(* connected through parent/child edges.                                   *)
C1_LabelsAreComponents ==
    Valid(data) =>
        /\ pc # "failed"
        /\ pc = "ready" =>
            /\ DOMAIN point_to_label = IdsOf(data)
            /\ \A k \in DOMAIN data :
                /\ data[k].label_id = point_to_label[data[k].point_id]
                /\ data[k].label_id >= 1
            /\ \A a, b \in DOMAIN data :
                (data[a].label_id = data[b].label_id)
                    <=> (data[b].point_id \in ComponentOf(data, data[a].point_id))

\* a labeled valid table with a branching point
C1_Witness ==
    /\ pc = "ready"
    /\ Valid(data)
    /\ \E x \in DOMAIN parent_to_children : Len(parent_to_children[x]) = 2

(* C2: for every valid record set, after the labeling pass the labels in   *)
(* use are exactly 1..k, k the number of root rows, and the i-th root in   *)
(* table order and its whole skeleton carry label i.                       *)
C2_DenseLabelsInRootOrder ==
    (Valid(data) /\ pc = "ready") =>
        /\ {data[k].label_id : k \in DOMAIN data} = 1..Len(RootSeq(data))
        /\ \A k \in DOMAIN data :
            data[k].label_id = RootIndexOf(data, data[k].point_id)

\* a labeled valid table whose second root has a child
C2_Witness ==
    /\ pc = "ready"
    /\ Valid(data)
    /\ Len(RootSeq(data)) >= 2
    /\ \E k \in DOMAIN data :
        ~IsRootRow(data[k]) /\ data[k].parent_id = RootSeq(data)[2].point_id

(* C3: if the record set contains a cycle among non-root points (a loop of *)
(* parent pointers through no root), the labeling pass fails with the      *)
(* cycle-detected error "Loop detected in skeleton", and neither completes *)
(* nor fails in another way.                                               *)
C3_CycleRaisesLoopDetected ==
    (NonRootCycle(data) /\ pc \in {"ready", "failed"}) =>
        (pc = "failed" /\ err = "Loop detected in skeleton")

(* C8: construction fails whenever two rows share a point_id or a non-root *)
(* row names a parent_id that no row carries; no such table is accepted    *)
(* and labeled.                                                            *)
C8_MalformedTableRejected ==
    (~UniqueIds(data) \/ DanglingParent(data)) => pc # "ready"

----------------------------------------------------------------------------
(* Vocabulary of the properties of queries *)

\* a provide call has returned a point map
Answered == pc = "ready" /\ roi \in Regions /\ qerr = "none"

InRoi(loc) == PointFilter(loc, MinBB(roi), MaxBB(roi))

\* ids of the rows inside the requested region
KeptIds == {data[k].point_id : k \in {j \in DOMAIN data : InRoi(data[j].location)}}

\* some row makes r the parent of x / the child of x
IsParentOf(r, x) ==
    \E k \in DOMAIN data :
        ~IsRootRow(data[k]) /\ data[k].point_id = x /\ data[k].parent_id = r

IsChildOf(r, x) == IsParentOf(x, r)

LabelOfId(x) == data[CHOOSE k \in DOMAIN data : data[k].point_id = x].label_id

\* the synthetic point the specification describes for missing relative r of
\* kept point x
SyntheticFor(pt, r, x) ==
    /\ pt.point_id = r
    /\ pt.label_id = LabelOfId(x)
    /\ \/ IsParentOf(r, x) /\ pt.parent_id = -1
       \/ IsChildOf(r, x) /\ pt.parent_id = x

\* pairs (kept point x, relative r of x that is in the table but not kept)
MissingPairs ==
    {pr \in KeptIds \X (IdsOf(data) \ KeptIds) :
        IsParentOf(pr[2], pr[1]) \/ IsChildOf(pr[2], pr[1])}

(* C4 as stated: after a query, for EVERY kept point x and every parent or *)
(* child r of x that is not kept, the result holds under r's id a          *)
(* synthetic point with x's label and parent_id -1 (r parent of x) or x's  *)
(* id (r child of x).  Stated here for valid record sets only, where it    *)
(* already fails.                                                          *)
C4_EveryPairHasItsSynthetic ==
    (Answered /\ Valid(data)) =>
        \A pr \in MissingPairs :
            /\ pr[2] \in DOMAIN points_data
            /\ SyntheticFor(points_data[pr[2]], pr[2], pr[1])

(* C4 amended: after a query, for every point r that is not kept and is a  *)
(* parent or child of some kept point, the result holds under r's id a     *)
(* synthetic point that has the label and the parent_id (-1 as a parent,   *)
(* the kept point's id as a child) the claim states for at least one kept  *)
(* point x that r is a relative of.                                        *)
C4_SomePairHasItsSynthetic ==
    Answered =>
        \A r \in {pr[2] : pr \in MissingPairs} :
            /\ r \in DOMAIN points_data
            /\ r \in DOMAIN relatives_resampled
            /\ points_data[r] = relatives_resampled[r]
            /\ \E x \in KeptIds :
                /\ <<x, r>> \in MissingPairs
                /\ SyntheticFor(points_data[r], r, x)

\* a missing point between a kept parent and a kept child got its synthetic point
C4_Witness ==
    /\ Answered
    /\ Valid(data)
    /\ \E r \in DOMAIN relatives_resampled :
        \E g, c \in KeptIds : IsChildOf(r, g) /\ IsParentOf(r, c)

(* C5: for the two-point skeleton with the child at (0,0,0) and its root   *)
(* at (10,0,0), the query of region origin (0,0,0) size (5,1,1) returns    *)
(* under the root's id a synthetic point at (4,0,0) with parent_id -1:     *)
(* the synthetic point lies where the edge leaves the box, not at the kept *)
(* point's own location.                                                   *)
C5_BoundaryPointAtExit ==
    (/\ pc = "ready"
     /\ roi = Roi(<<0, 0, 0>>, <<5, 1, 1>>)
     /\ Len(data) = 2
     /\ Valid(data)
     /\ \E c, r \in DOMAIN data :
            /\ data[c].location = <<0, 0, 0>> /\ data[c].parent_id = data[r].point_id
            /\ data[r].location = <<10, 0, 0>> /\ IsRootRow(data[r])
            /\ c # r)
    => /\ qerr = "none"
       /\ \A r \in DOMAIN data :
            IsRootRow(data[r]) =>
                /\ data[r].point_id \in DOMAIN points_data
                /\ points_data[data[r].point_id].location = <<4, 0, 0>>
                /\ points_data[data[r].point_id].parent_id = -1

(* C7: the filter step of a query keeps exactly the points inside          *)
(* begin <= location <= end - 1 on every axis: every such row is in the    *)
(* result under its own id with its own location, parent_id and label_id,  *)
(* and no real (non-synthetic) point of the result lies outside the bounds.*)
C7_FilterKeepsExactlyInside ==
    Answered =>
        /\ \A k \in DOMAIN data :
            InRoi(data[k].location) =>
                /\ data[k].point_id \in DOMAIN points_data
                /\ points_data[data[k].point_id] =
                    SwcPoint(data[k].location, data[k].point_id,
                             data[k].parent_id, data[k].label_id)
        /\ \A x \in (DOMAIN points_data) \ (DOMAIN relatives_resampled) :
            InRoi(points_data[x].location)

\* C7 on the stores whose point ids are unique
C7_UniqueIdsFilterKeepsExactlyInside == UniqueIds(data) => C7_FilterKeepsExactlyInside

----------------------------------------------------------------------------
(* Properties of the line rasterization *)

\* the voxels in the order visited: the first end point, then the steps
VisitedPath == <<call.point>> \o ret.value.line_segment_points

Adjacent(u, v) == \A d \in Axes : Abs(u[d] - v[d]) <= 1

(* C9: rasterizing one edge between two points at integer voxel            *)
(* coordinates marks a voxel set that contains both end points, visits     *)
(* voxels that differ by at most 1 on every axis from one to the next and  *)
(* ends at the second end point (26-connected path); an edge with equal    *)
(* end points marks exactly that one voxel.                                *)
C9_LineIsConnected ==
    (call.fn = "_rasterize_line_segment" /\ ret # Pending) =>
        /\ ret.state = "returned"
        /\ call.point \in ret.value.skeletonized
        /\ call.parent \in ret.value.skeletonized
        /\ ret.value.skeletonized = Range(VisitedPath)
        /\ VisitedPath[Len(VisitedPath)] = call.parent
        /\ \A k \in 1..(Len(VisitedPath) - 1) :
            Adjacent(VisitedPath[k], VisitedPath[k + 1])
        /\ call.point = call.parent => ret.value.skeletonized = {call.point}

\* a rasterized edge that advances on all three axes at different rates
C9_Witness ==
    /\ call.fn = "_rasterize_line_segment"
    /\ ret.state = "returned"
    /\ Abs(call.parent[1] - call.point[1]) = 3
    /\ Abs(call.parent[2] - call.point[2]) = 2
    /\ Abs(call.parent[3] - call.point[3]) = 1

----------------------------------------------------------------------------
(* Properties of the rasterizer *)

\* the voxels the edges of the n-th component are rasterized to
VoxelsOfComponent(n) == Binarized(batch, ccs[n]).mask

DisjointComponents ==
    \A m, n \in 1..Len(ccs) :
        m < n => VoxelsOfComponent(m) \cap VoxelsOfComponent(n) = {}

OutputIsComponentLabels ==
    /\ {array[v] : v \in DOMAIN array} \ {0} = 1..Len(ccs)
    /\ \A n \in 1..Len(ccs) :
        VoxelsOfComponent(n) = {v \in DOMAIN array : array[v] = n}

(* C10: when the rasterizer is given k weakly-connected components whose   *)
(* rasterized voxel sets are pairwise disjoint, the output grid contains   *)
(* exactly k distinct non-zero values, 1..k in component discovery order,  *)
(* each voxel of component i holds value i, and no voxel belongs to two    *)
(* components.                                                             *)
C10_DisjointComponentsGetDistinctLabels ==
    (rpc = "done" /\ DisjointComponents) => OutputIsComponentLabels

\* C10 on the graphs in which every component has an edge
C10_ComponentsWithEdges ==
    (/\ rpc = "done"
     /\ \A n \in 1..Len(ccs) : \E e \in Range(batch.edges) : e[1] \in ccs[n]
     /\ DisjointComponents)
    => OutputIsComponentLabels

\* the components made of one node that no edge touches
SinglePointComponents ==
    {n \in 1..Len(ccs) :
        /\ Cardinality(ccs[n]) = 1
        /\ \A e \in Range(batch.edges) : e[1] \notin ccs[n] /\ e[2] \notin ccs[n]}

\* the voxels of the output that hold the value n
VoxelsLabeled(n) == {v \in DOMAIN array : array[v] = n}

\* the voxel of node k, by either conversion of lines 84-87
VoxelsOfNode(k) ==
    {VoxelOfU(batch, batch.nodes[k].location),
     VoxelOfV(batch, batch.nodes[k].location)}

(* C11: a weakly-connected component that consists of a single point with  *)
(* no edges still causes exactly the voxel of that point to be marked with *)
(* the component's label in the rasterizer output.                         *)
C11_SinglePointComponentMarked ==
    rpc = "done" =>
        \A n \in SinglePointComponents :
            \E k \in ccs[n] : \E v \in VoxelsOfNode(k) : VoxelsLabeled(n) = {v}

----------------------------------------------------------------------------
(* Properties of the store while it serves calls *)

(* C12: any number of query (provide) and rasterize (process) calls, in    *)
(* any order or interleaving, leave the store unchanged: the point table   *)
(* (locations, ids, parent ids, labels), child_to_parent,                  *)
(* parent_to_children and sources are the same after each call as they     *)
(* were when construction finished.                                        *)
C12_CallsLeaveStoreUnchanged ==
    [][pc = "ready" =>
         /\ data' = data
         /\ child_to_parent' = child_to_parent
         /\ parent_to_children' = parent_to_children
         /\ sources' = sources]_vars

\* a query that synthesized a boundary point has been answered and a call of
\* process has returned its array, against a labeled store
C12_Witness ==
    /\ pc = "ready"
    /\ roi \in Regions
    /\ qerr = "none"
    /\ relatives_resampled # EmptyMap
    /\ rpc = "done"
    /\ \E v \in DOMAIN array : array[v] # 0

----------------------------------------------------------------------------
(* Properties of a failed construction *)

\* nothing of the labeling pass is on the store
NothingExposed ==
    /\ \A k \in DOMAIN data : data[k].label_id = 0
    /\ point_to_label = EmptyMap
    /\ child_to_parent = EmptyMap
    /\ parent_to_children = EmptyMap
    /\ sources = <<>>

(* C13: construction is all-or-nothing: if the build/labeling pass raises  *)
(* (cycle, duplicate id, dangling or unreachable parent), no partially     *)
(* populated result is left visible, i.e. no point in the table has had    *)
(* its label_id changed from 0 and no partial labeling or adjacency index  *)
(* is exposed on the store.                                                *)
C13_FailedConstructionLeavesNothing == pc = "failed" => NothingExposed

\* C13 for the labels of the table alone
C13_FailedConstructionLeavesLabelsZero ==
    pc = "failed" => \A k \in DOMAIN data : data[k].label_id = 0

\* C13 for the failures raised by the traversal (before any label is written)
C13_LoopFailureLeavesIndicesEmpty ==
    (pc = "failed" /\ err = "Loop detected in skeleton") =>
        /\ point_to_label = EmptyMap
        /\ child_to_parent = EmptyMap
        /\ parent_to_children = EmptyMap
        /\ sources = <<>>

----------------------------------------------------------------------------
(* Properties of repeated queries *)

\* a result of provide is held by the caller and provide has been called
\* again, later, with the region of that result
AskedAgain == pc = "ready" /\ call.fn = "provide" /\ roi = call.roi

(* C14: region query is idempotent: two query calls with the same region   *)
(* against the same constructed store return maps with the same key set    *)
(* and, for every key, the same location, point_id, parent_id and          *)
(* label_id, including the synthetic boundary points.                      *)
C14_SameRegionSameResult == AskedAgain => ret = Result

\* the region of a held result that has a synthetic boundary point was asked
\* for again
C14_Witness ==
    /\ AskedAgain
    /\ ret.state = "returned"
    /\ qerr = "none"
    /\ relatives_resampled # EmptyMap

----------------------------------------------------------------------------
(* Properties of the conversion to voxel coordinates *)

\* the nodes that are an end point of an edge
EdgeNodes == UNION {{e[1], e[2]} : e \in Range(batch.edges)}

(* C15: in the rasterizer, a point is converted to the same voxel-grid     *)
(* coordinate whether it is the first endpoint (u) or the second endpoint  *)
(* (v) of an edge, for every location, voxel size and grid offset          *)
(* (including negative or fractional location/voxel_size values); hence    *)
(* two edges that share a node always share that node's voxel.             *)
C15_SameVoxelForBothEndpoints ==
    rpc = "done" =>
        \A k \in EdgeNodes :
            VoxelOfU(batch, batch.nodes[k].location)
                = VoxelOfV(batch, batch.nodes[k].location)

\* C15 where location / voxel_size is a whole number on every axis
C15_WholeVoxelsConvertAlike ==
    rpc = "done" =>
        \A k \in EdgeNodes :
            (\A d \in Axes : batch.nodes[k].location[d] % batch.voxel_size[d] = 0)
            => VoxelOfU(batch, batch.nodes[k].location)
                   = VoxelOfV(batch, batch.nodes[k].location)

----------------------------------------------------------------------------
(* Properties of the assertion of _resample_relative *)

LocationOfId(x) == data[CHOOSE k \in DOMAIN data : data[k].point_id = x].location

(* C16: for a store built from records with unique point ids, query never  *)
(* hits the 'cannot resample' failure: whenever a point p is kept by the   *)
(* filter and a parent or child r of p is not kept, at least one per-axis  *)
(* ratio (box_min - p)/(r - p) or (box_max - p)/(r - p) lies in [0, 1], so *)
(* the assertion in _resample_relative always passes and a boundary point  *)
(* is produced.                                                            *)
C16_MissingRelativeIsResampled ==
    (pc = "ready" /\ UniqueIds(data) /\ roi # NoRoi) =>
        /\ qerr # "AssertionError"
        /\ \A pr \in MissingPairs :
            /\ \E f \in Ratios(LocationOfId(pr[1]), LocationOfId(pr[2]),
                               MinBB(roi), MaxBB(roi)) :
                    f[1] >= 0 /\ f[1] <= f[2]
            /\ pr[2] \in DOMAIN relatives_resampled

\* the kept point lies on the face of the box that its missing relative is
\* behind, and the boundary point was produced
C16_Witness ==
    /\ pc = "ready"
    /\ UniqueIds(data)
    /\ roi # NoRoi
    /\ qerr = "none"
    /\ \E pr \in MissingPairs :
        /\ pr[2] \in DOMAIN relatives_resampled
        /\ \E d \in Axes :
            /\ LocationOfId(pr[1])[d] = MinBB(roi)[d]
            /\ LocationOfId(pr[2])[d] < MinBB(roi)[d]
            /\ \A a \in Axes \ {d} : LocationOfId(pr[2])[a] = LocationOfId(pr[1])[a]

----------------------------------------------------------------------------
(* Termination of the labeling pass *)

\* a step of _label_skeleton raises, or labels a point that had no label
LabelsNewPointOrRaises ==
    pc = "walk" =>
        \/ pc' = "failed" /\ point_to_label' = point_to_label
        \/ /\ p \notin DOMAIN point_to_label
           /\ point_to_label' = Put(point_to_label, p, label_id)
           /\ pc' \in {"walk", "label"}

(* C17: the labeling pass terminates on every finite record table,         *)
(* including tables with cycles, duplicate ids or dangling parents: each   *)
(* step of _label_skeleton either labels a point that was not yet in       *)
(* point_to_label or raises, so the traversal from every root eventually   *)
(* finishes or fails and never loops forever.                              *)
C17_LabelingTerminates ==
    /\ [][LabelsNewPointOrRaises]_vars
    /\ <>(pc \in {"ready", "failed"})

\* the walk went round a cycle made by a duplicated id and was stopped
C17_Witness ==
    /\ pc = "failed"
    /\ err = "Loop detected in skeleton"
    /\ ~UniqueIds(data)
    /\ Cardinality(DOMAIN point_to_label) >= 2
    /\ p \in Range(sources)

====
